---- MODULE Spec2Model ----
(***************************************************************************)
(* Serving Advancer of the virtual waiting room:                           *)
(* source/core-api/lambda_functions/set_counter_positions_expired.py       *)
(*                                                                         *)
(* lambda_handler reads three counters from the cache (rc), queries the    *)
(* serving-counter table for checkpoints above MAX_QUEUE_POSITION_EXPIRED  *)
(* and, for each checkpoint in ascending order whose time in queue has     *)
(* reached the expiry period, SETs the frontier, INCRBYs the serving       *)
(* counter by the credit and PUTs a new checkpoint.  Every cache or table  *)
(* call is one step of the model, so that runs can fail between two calls  *)
(* and can overlap.                                                        *)
(***************************************************************************)
EXTENDS Integers, Sequences, FiniteSets, TLC

\* ---------------------------------------------------------------- bounds
\* Highest queue position issued in an initial state.
MaxQueue == 2
\* Last reading of the clock.
MaxTime == 2
\* Number of invocations of lambda_handler in one behaviour.
MaxRuns == 2

\* ------------------------------------------------------ program constants
\* int(QUEUE_POSITION_EXPIRY_PERIOD), seconds.
QUEUE_POSITION_EXPIRY_PERIOD == 1

\* Cache keys (counters.py).
MAX_QUEUE_POSITION_EXPIRED == "max_queue_position_expired"
SERVING_COUNTER == "serving_counter"
QUEUE_COUNTER == "queue_counter"

\* Invocations that may be in flight; Writer is the one the single-writer
\* specifications use.
Procs == {"a", "b"}
Writer == "a"

VARIABLES
    rc,                 \* cache: key -> integer
    serving_table,      \* ddb_table_serving_counter_issued_at: serving_counter -> item
    position_table,     \* ddb_table_queue_position_issued_at: queue_position -> issue_time
    now,                \* time()
    pc,                 \* position of each invocation in lambda_handler
    current_time,       \* local, line 43
    max_queue_position_expired,          \* local, line 45
    serving_counter_items,               \* local, line 54
    idx,                \* index of the for loop of line 63
    previous_serving_counter_position,   \* local, lines 61 and 101
    increment_by,       \* local, line 88
    cur_serving,        \* local, line 89
    runs,               \* invocations started so far
    stop,               \* why each invocation left the loop
    applied,            \* history: checkpoint values applied by the current invocation
    pre,                \* history: what the invocation saw when it began its last item
    sets,               \* history: checkpoint value -> number of frontier SETs
    credits,            \* history: checkpoint value -> number of INCRBYs
    puts,               \* history: checkpoint value -> number of PUTs done for it
    reached,            \* history: values SERVING_COUNTER has held
    written,            \* history: keys of the checkpoints lambda_handler has PUT
    begin,              \* history: cache and tables when the invocation started
    writes,             \* history: cache and table writes of the current invocation
    overlapped,         \* history: two invocations were in flight together
    failed              \* history: an invocation failed

vars == << rc, serving_table, position_table, now, pc, current_time,
           max_queue_position_expired, serving_counter_items, idx,
           previous_serving_counter_position, increment_by, cur_serving,
           runs, stop, applied, pre, sets, credits, puts, reached, written,
           begin, writes, overlapped, failed >>

locals == << current_time, max_queue_position_expired, serving_counter_items,
             idx, previous_serving_counter_position, increment_by, cur_serving >>

history == << sets, credits, puts, reached, written >>

\* ---------------------------------------------------------------- helpers
Max(a, b) == IF a >= b THEN a ELSE b

Min(a, b) == IF a <= b THEN a ELSE b

MinOf(S) == CHOOSE x \in S : \A y \in S : x <= y

RECURSIVE Ascending(_)
Ascending(S) ==
    IF S = {} THEN << >>
    ELSE << MinOf(S) >> \o Ascending(S \ {MinOf(S)})

Count(f, v) == IF v \in DOMAIN f THEN f[v] ELSE 0

Bump(f, v) == [x \in DOMAIN f \cup {v} |-> IF x = v THEN Count(f, v) + 1 ELSE f[x]]

Item(tbl, k) ==
    [serving_counter |-> k,
     issue_time |-> tbl[k].issue_time,
     queue_positions_served |-> tbl[k].queue_positions_served]

\* Variant of QueryServing: the key condition gte instead of gt.
QueryServingGte(tbl, m) ==
    LET keys == {k \in DOMAIN tbl : k >= m}
        asc == Ascending(keys)
    IN [i \in 1..Len(asc) |-> Item(tbl, asc[i])]

\* Lines 51-54: Key('serving_counter').gt(max_queue_position_expired); the
\* table returns the items of a partition in ascending sort-key order.
QueryServing(tbl, m) ==
    LET keys == {k \in DOMAIN tbl : k > m}
        asc == Ascending(keys)
    IN [i \in 1..Len(asc) |-> Item(tbl, asc[i])]

\* Variant of Expired: the earlier of the two issue times.
ExpiredMin(ct, queue_item_issue_time, serving_counter_issue_time) ==
    ~(ct - Min(queue_item_issue_time, serving_counter_issue_time)
        < QUEUE_POSITION_EXPIRY_PERIOD)

\* Variant of Expired: an elapsed time equal to the period is still within it.
ExpiredStrict(ct, queue_item_issue_time, serving_counter_issue_time) ==
    ~(ct - Max(queue_item_issue_time, serving_counter_issue_time)
        <= QUEUE_POSITION_EXPIRY_PERIOD)

\* Lines 78-82: the item is applied unless
\* current_time - max(queue_item_issue_time, serving_counter_issue_time)
\* is below the expiry period.
Expired(ct, queue_item_issue_time, serving_counter_issue_time) ==
    ~(ct - Max(queue_item_issue_time, serving_counter_issue_time)
        < QUEUE_POSITION_EXPIRY_PERIOD)

\* Variants of IncrementBy: the positions served, or the previous position,
\* left out of the credit, or the positions served added to it.
IncrementByNoServed(position, previous, served) == position - previous

IncrementByNoPrevious(position, previous, served) == position - served

IncrementByPlusServed(position, previous, served) == (position - previous) + served

\* Line 88: (Current - Previous) - (Positions served).
IncrementBy(position, previous, served) == (position - previous) - served

\* Line 96: put_item replaces the item with the same key.
PutItem(tbl, k, t) ==
    [x \in DOMAIN tbl \cup {k} |->
        IF x = k THEN [issue_time |-> t, queue_positions_served |-> 0]
        ELSE tbl[x]]

Active(p) == pc[p] \in {"query", "check", "set", "incr", "put"}

Quiescent == \A p \in Procs : ~Active(p)

\* ------------------------------------------------------------------- Init
Times0 == 0..QUEUE_POSITION_EXPIRY_PERIOD

NoPre == [c |-> 0, s |-> 0, p |-> 0, v |-> 0, m |-> 0, tbl |-> << >>, t |-> 0]

\* No invocation has started; the clock stands at the expiry period, so that
\* an item issued at 0 has just reached it.
InitInvocations ==
    /\ now = QUEUE_POSITION_EXPIRY_PERIOD
    /\ pc = [p \in Procs |-> "idle"]
    /\ current_time = [p \in Procs |-> 0]
    /\ max_queue_position_expired = [p \in Procs |-> 0]
    /\ serving_counter_items = [p \in Procs |-> << >>]
    /\ idx = [p \in Procs |-> 0]
    /\ previous_serving_counter_position = [p \in Procs |-> 0]
    /\ increment_by = [p \in Procs |-> 0]
    /\ cur_serving = [p \in Procs |-> 0]
    /\ runs = 0
    /\ stop = [p \in Procs |-> "none"]
    /\ applied = [p \in Procs |-> << >>]
    /\ pre = [p \in Procs |-> NoPre]
    /\ begin = [p \in Procs |->
                  [rc |-> rc, tbl |-> serving_table, pos |-> position_table]]
    /\ writes = [p \in Procs |-> 0]
    /\ sets = << >>
    /\ credits = << >>
    /\ puts = << >>
    /\ reached = {rc[SERVING_COUNTER]}
    /\ written = {}
    /\ overlapped = FALSE
    /\ failed = FALSE

\* Any cache and table contents with frontier <= serving counter <= queue
\* counter, checkpoints keyed by past values of the serving counter and
\* position records of issued positions.
Init ==
    /\ \E q \in 0..MaxQueue : \E s \in 0..q : \E m \in 0..s :
          rc = [k \in {MAX_QUEUE_POSITION_EXPIRED, SERVING_COUNTER, QUEUE_COUNTER} |->
                    IF k = QUEUE_COUNTER THEN q
                    ELSE IF k = SERVING_COUNTER THEN s ELSE m]
    /\ \E S \in SUBSET (1..rc[SERVING_COUNTER]) :
          serving_table \in
              {f \in [S -> [issue_time : Times0,
                           queue_positions_served : 0..rc[SERVING_COUNTER]]] :
                  \A k \in S : f[k].queue_positions_served <= k}
    /\ \E S \in SUBSET (1..rc[QUEUE_COUNTER]) : position_table \in [S -> Times0]
    /\ InitInvocations

\* ---------------------------------------------------------------- actions
\* time() never runs backwards: a reading is any value from the last reading
\* on, up to MaxTime.
Readings == now..MaxTime

\* Lines 38-48: a new invocation (its locals are fresh),
\* current_time := int(time()) and the three GETs.
Start(p) ==
    /\ ~Active(p)
    /\ runs < MaxRuns
    /\ runs' = runs + 1
    /\ \E t \in Readings :
          /\ now' = t
          /\ current_time' = [current_time EXCEPT ![p] = t]
    /\ max_queue_position_expired' =
          [max_queue_position_expired EXCEPT ![p] = rc[MAX_QUEUE_POSITION_EXPIRED]]
    /\ pc' = [pc EXCEPT ![p] = "query"]
    /\ stop' = [stop EXCEPT ![p] = "none"]
    /\ applied' = [applied EXCEPT ![p] = << >>]
    /\ pre' = [pre EXCEPT ![p] = NoPre]
    /\ begin' = [begin EXCEPT ![p] =
                    [rc |-> rc, tbl |-> serving_table, pos |-> position_table]]
    /\ writes' = [writes EXCEPT ![p] = 0]
    /\ overlapped' = (overlapped \/ \E q \in Procs \ {p} : Active(q))
    /\ serving_counter_items' = [serving_counter_items EXCEPT ![p] = << >>]
    /\ idx' = [idx EXCEPT ![p] = 0]
    /\ previous_serving_counter_position' =
          [previous_serving_counter_position EXCEPT ![p] = 0]
    /\ increment_by' = [increment_by EXCEPT ![p] = 0]
    /\ cur_serving' = [cur_serving EXCEPT ![p] = 0]
    /\ UNCHANGED << rc, serving_table, position_table, history, failed >>

\* Start of an invocation while no other one is in flight.
StartAlone(p) ==
    /\ Quiescent
    /\ Start(p)

\* Lines 50-61: the query, the empty case, previous := frontier read.
Query(p) ==
    /\ pc[p] = "query"
    /\ LET its == QueryServing(serving_table, max_queue_position_expired[p]) IN
          /\ serving_counter_items' = [serving_counter_items EXCEPT ![p] = its]
          /\ IF its = << >>
             THEN /\ pc' = [pc EXCEPT ![p] = "done"]
                  /\ stop' = [stop EXCEPT ![p] = "empty"]
                  /\ UNCHANGED << idx, previous_serving_counter_position >>
             ELSE /\ pc' = [pc EXCEPT ![p] = "check"]
                  /\ idx' = [idx EXCEPT ![p] = 1]
                  /\ previous_serving_counter_position' =
                        [previous_serving_counter_position EXCEPT
                            ![p] = max_queue_position_expired[p]]
                  /\ UNCHANGED stop
    /\ UNCHANGED << rc, serving_table, position_table, now, current_time,
                    max_queue_position_expired, increment_by, cur_serving, runs,
                    applied, pre, history, begin, writes, overlapped, failed >>

\* Variant of Check: an item still within the expiry period is skipped
\* (continue) instead of ending the loop.
CheckSkips(p) ==
    /\ pc[p] = "check"
    /\ LET item == serving_counter_items[p][idx[p]]
           serving_counter_item_position == item.serving_counter
       IN IF serving_counter_item_position \notin DOMAIN position_table
          THEN /\ pc' = [pc EXCEPT ![p] = "done"]
               /\ stop' = [stop EXCEPT ![p] = "missing"]
               /\ UNCHANGED idx
          ELSE IF ~Expired(current_time[p],
                           position_table[serving_counter_item_position],
                           item.issue_time)
          THEN IF idx[p] = Len(serving_counter_items[p])
               THEN /\ pc' = [pc EXCEPT ![p] = "done"]
                    /\ stop' = [stop EXCEPT ![p] = "ineligible"]
                    /\ UNCHANGED idx
               ELSE /\ idx' = [idx EXCEPT ![p] = idx[p] + 1]
                    /\ UNCHANGED << pc, stop >>
          ELSE /\ pc' = [pc EXCEPT ![p] = "set"]
               /\ UNCHANGED << stop, idx >>
    /\ UNCHANGED << rc, serving_table, position_table, now, current_time,
                    max_queue_position_expired, serving_counter_items,
                    previous_serving_counter_position, increment_by, cur_serving,
                    runs, applied, pre, history, begin, writes, overlapped,
                    failed >>

\* Variant of Check: an item without a position record is skipped (continue)
\* instead of ending the loop.
CheckSkipsMissing(p) ==
    /\ pc[p] = "check"
    /\ LET item == serving_counter_items[p][idx[p]]
           serving_counter_item_position == item.serving_counter
       IN IF serving_counter_item_position \notin DOMAIN position_table
          THEN IF idx[p] = Len(serving_counter_items[p])
               THEN /\ pc' = [pc EXCEPT ![p] = "done"]
                    /\ stop' = [stop EXCEPT ![p] = "missing"]
                    /\ UNCHANGED idx
               ELSE /\ idx' = [idx EXCEPT ![p] = idx[p] + 1]
                    /\ UNCHANGED << pc, stop >>
          ELSE IF ~Expired(current_time[p],
                           position_table[serving_counter_item_position],
                           item.issue_time)
          THEN /\ pc' = [pc EXCEPT ![p] = "done"]
               /\ stop' = [stop EXCEPT ![p] = "ineligible"]
               /\ UNCHANGED idx
          ELSE /\ pc' = [pc EXCEPT ![p] = "set"]
               /\ UNCHANGED << stop, idx >>
    /\ UNCHANGED << rc, serving_table, position_table, now, current_time,
                    max_queue_position_expired, serving_counter_items,
                    previous_serving_counter_position, increment_by, cur_serving,
                    runs, applied, pre, history, begin, writes, overlapped,
                    failed >>

\* Lines 63-82 for the item at idx: the position query and the two breaks.
Check(p) ==
    /\ pc[p] = "check"
    /\ LET item == serving_counter_items[p][idx[p]]
           serving_counter_item_position == item.serving_counter
       IN IF serving_counter_item_position \notin DOMAIN position_table
          THEN /\ pc' = [pc EXCEPT ![p] = "done"]
               /\ stop' = [stop EXCEPT ![p] = "missing"]
          ELSE IF ~Expired(current_time[p],
                           position_table[serving_counter_item_position],
                           item.issue_time)
          THEN /\ pc' = [pc EXCEPT ![p] = "done"]
               /\ stop' = [stop EXCEPT ![p] = "ineligible"]
          ELSE /\ pc' = [pc EXCEPT ![p] = "set"]
               /\ UNCHANGED stop
    /\ UNCHANGED << rc, serving_table, position_table, now, locals, runs,
                    applied, pre, history, begin, writes, overlapped, failed >>

\* Variant of SetFrontier: the frontier is left where it was.
SetFrontierKeeps(p) ==
    /\ pc[p] = "set"
    /\ LET item == serving_counter_items[p][idx[p]] IN
          /\ rc' = rc
          /\ sets' = Bump(sets, item.serving_counter)
          /\ applied' = [applied EXCEPT ![p] = Append(@, item.serving_counter)]
          /\ pre' = [pre EXCEPT ![p] =
                        [c |-> item.serving_counter,
                         s |-> item.queue_positions_served,
                         p |-> previous_serving_counter_position[p],
                         v |-> rc[SERVING_COUNTER],
                         m |-> rc[MAX_QUEUE_POSITION_EXPIRED],
                         tbl |-> serving_table,
                         t |-> 0]]
    /\ pc' = [pc EXCEPT ![p] = "incr"]
    /\ writes' = [writes EXCEPT ![p] = @ + 1]
    /\ UNCHANGED << serving_table, position_table, now, locals, runs, stop,
                    credits, puts, reached, written, begin, overlapped, failed >>

\* Line 84: rc.set(MAX_QUEUE_POSITION_EXPIRED, serving_counter_item_position).
\* (The local max_queue_position_expired receives the reply of SET and is not
\* read again; the model leaves it at the value read at line 45.)
SetFrontier(p) ==
    /\ pc[p] = "set"
    /\ LET item == serving_counter_items[p][idx[p]] IN
          /\ rc' = [rc EXCEPT ![MAX_QUEUE_POSITION_EXPIRED] = item.serving_counter]
          /\ sets' = Bump(sets, item.serving_counter)
          /\ applied' = [applied EXCEPT ![p] = Append(@, item.serving_counter)]
          /\ pre' = [pre EXCEPT ![p] =
                        [c |-> item.serving_counter,
                         s |-> item.queue_positions_served,
                         p |-> previous_serving_counter_position[p],
                         v |-> rc[SERVING_COUNTER],
                         m |-> rc[MAX_QUEUE_POSITION_EXPIRED],
                         tbl |-> serving_table,
                         t |-> 0]]
    /\ pc' = [pc EXCEPT ![p] = "incr"]
    /\ writes' = [writes EXCEPT ![p] = @ + 1]
    /\ UNCHANGED << serving_table, position_table, now, locals, runs, stop,
                    credits, puts, reached, written, begin, overlapped, failed >>

\* Lines 87-89: the credit and rc.incrby(SERVING_COUNTER, increment_by),
\* whose reply is the value after the increment.
IncrBy(p) ==
    /\ pc[p] = "incr"
    /\ LET item == serving_counter_items[p][idx[p]]
           inc == IncrementBy(item.serving_counter,
                              previous_serving_counter_position[p],
                              item.queue_positions_served)
       IN /\ increment_by' = [increment_by EXCEPT ![p] = inc]
          /\ rc' = [rc EXCEPT ![SERVING_COUNTER] = rc[SERVING_COUNTER] + inc]
          /\ cur_serving' = [cur_serving EXCEPT ![p] = rc[SERVING_COUNTER] + inc]
          /\ credits' = Bump(credits, item.serving_counter)
          /\ reached' = reached \cup {rc[SERVING_COUNTER] + inc}
    /\ pc' = [pc EXCEPT ![p] = "put"]
    /\ writes' = [writes EXCEPT ![p] = @ + 1]
    /\ UNCHANGED << serving_table, position_table, now, current_time,
                    max_queue_position_expired, serving_counter_items, idx,
                    previous_serving_counter_position, runs, stop, applied, pre,
                    sets, puts, written, begin, overlapped, failed >>

\* Variant of Put: previous := the value INCRBY returned instead of the
\* position of the item just applied.
PutPreviousFromCounter(p) ==
    /\ pc[p] = "put"
    /\ LET item == serving_counter_items[p][idx[p]] IN
          /\ \E t \in Readings :
                /\ now' = t
                /\ serving_table' = PutItem(serving_table, cur_serving[p], t)
                /\ pre' = [pre EXCEPT ![p].t = t]
          /\ puts' = Bump(puts, item.serving_counter)
          /\ written' = written \cup {cur_serving[p]}
          /\ previous_serving_counter_position' =
                [previous_serving_counter_position EXCEPT ![p] = cur_serving[p]]
    /\ IF idx[p] = Len(serving_counter_items[p])
       THEN /\ pc' = [pc EXCEPT ![p] = "done"]
            /\ stop' = [stop EXCEPT ![p] = "exhausted"]
            /\ UNCHANGED idx
       ELSE /\ pc' = [pc EXCEPT ![p] = "check"]
            /\ idx' = [idx EXCEPT ![p] = idx[p] + 1]
            /\ UNCHANGED stop
    /\ writes' = [writes EXCEPT ![p] = @ + 1]
    /\ UNCHANGED << rc, position_table, current_time,
                    max_queue_position_expired, serving_counter_items,
                    increment_by, cur_serving, runs, applied, sets, credits,
                    reached, begin, overlapped, failed >>

\* Variant of Put: the checkpoint just written joins the items of the loop.
PutExtendsItems(p) ==
    /\ pc[p] = "put"
    /\ LET item == serving_counter_items[p][idx[p]] IN
          /\ \E t \in Readings :
                /\ now' = t
                /\ serving_table' = PutItem(serving_table, cur_serving[p], t)
                /\ pre' = [pre EXCEPT ![p].t = t]
                /\ serving_counter_items' =
                      [serving_counter_items EXCEPT ![p] =
                          Append(@, [serving_counter |-> cur_serving[p],
                                     issue_time |-> t,
                                     queue_positions_served |-> 0])]
          /\ puts' = Bump(puts, item.serving_counter)
          /\ written' = written \cup {cur_serving[p]}
          /\ previous_serving_counter_position' =
                [previous_serving_counter_position EXCEPT ![p] = item.serving_counter]
    /\ pc' = [pc EXCEPT ![p] = "check"]
    /\ idx' = [idx EXCEPT ![p] = idx[p] + 1]
    /\ writes' = [writes EXCEPT ![p] = @ + 1]
    /\ UNCHANGED << rc, position_table, current_time,
                    max_queue_position_expired, increment_by, cur_serving, runs,
                    stop, applied, sets, credits, reached, begin, overlapped,
                    failed >>

\* Lines 90-101: put_item of the new checkpoint with issue_time int(time()),
\* previous := item position, and the step of the for loop.
Put(p) ==
    /\ pc[p] = "put"
    /\ LET item == serving_counter_items[p][idx[p]] IN
          /\ \E t \in Readings :
                /\ now' = t
                /\ serving_table' = PutItem(serving_table, cur_serving[p], t)
                /\ pre' = [pre EXCEPT ![p].t = t]
          /\ puts' = Bump(puts, item.serving_counter)
          /\ written' = written \cup {cur_serving[p]}
          /\ previous_serving_counter_position' =
                [previous_serving_counter_position EXCEPT ![p] = item.serving_counter]
    /\ IF idx[p] = Len(serving_counter_items[p])
       THEN /\ pc' = [pc EXCEPT ![p] = "done"]
            /\ stop' = [stop EXCEPT ![p] = "exhausted"]
            /\ UNCHANGED idx
       ELSE /\ pc' = [pc EXCEPT ![p] = "check"]
            /\ idx' = [idx EXCEPT ![p] = idx[p] + 1]
            /\ UNCHANGED stop
    /\ writes' = [writes EXCEPT ![p] = @ + 1]
    /\ UNCHANGED << rc, position_table, current_time,
                    max_queue_position_expired, serving_counter_items,
                    increment_by, cur_serving, runs, applied, sets, credits,
                    reached, begin, overlapped, failed >>

\* A cache or table call raises: the invocation ends where it is.
Fail(p) ==
    /\ Active(p)
    /\ pc' = [pc EXCEPT ![p] = "done"]
    /\ stop' = [stop EXCEPT ![p] = "failed"]
    /\ failed' = TRUE
    /\ UNCHANGED << rc, serving_table, position_table, now, locals, runs,
                    applied, pre, history, begin, writes, overlapped >>

\* --------------------------------------------------------- specifications
\* One invocation at a time, none fails.
Next ==
    \/ StartAlone(Writer)
    \/ Query(Writer)
    \/ Check(Writer)
    \/ SetFrontier(Writer)
    \/ IncrBy(Writer)
    \/ Put(Writer)

Spec == Init /\ [][Next]_vars

\* One invocation at a time; an invocation may fail at any call.
NextRetry ==
    \/ Next
    \/ Fail(Writer)

SpecRetry == Init /\ [][NextRetry]_vars

\* One invocation at a time, none fails, and a started invocation keeps
\* running: lambda_handler is sequential code whose cache and table calls
\* return.
Step(p) ==
    \/ Query(p)
    \/ Check(p)
    \/ SetFrontier(p)
    \/ IncrBy(p)
    \/ Put(p)

SpecLive == Init /\ [][Next]_vars /\ WF_vars(Step(Writer))

\* Invocations may overlap.
NextOverlap ==
    \E p \in Procs :
          \/ Start(p)
          \/ Query(p)
          \/ Check(p)
          \/ SetFrontier(p)
          \/ IncrBy(p)
          \/ Put(p)

SpecOverlap == Init /\ [][NextOverlap]_vars

\* One invocation at a time on the operands of the credit example of the
\* design: a frontier near 100, one expired checkpoint near 150 with up to 5
\* positions served.
ExampleFrontiers == 98..100
ExampleCheckpoints == 148..150
ExampleServed == 3..5

InitCredit ==
    /\ \E m \in ExampleFrontiers : \E c \in ExampleCheckpoints :
          \E served \in ExampleServed :
              /\ rc = [k \in {MAX_QUEUE_POSITION_EXPIRED, SERVING_COUNTER,
                              QUEUE_COUNTER} |->
                          IF k = MAX_QUEUE_POSITION_EXPIRED THEN m ELSE c]
              /\ serving_table =
                    [k \in {c} |-> [issue_time |-> 0,
                                    queue_positions_served |-> served]]
              /\ position_table = [k \in {c} |-> 0]
    /\ InitInvocations

SpecCredit == InitCredit /\ [][Next]_vars

\* ----------------------------------------------------------------- claims
Finished(p) ==
    pc[p] = "done" /\ stop[p] \in {"empty", "missing", "ineligible", "exhausted"}

\* The item the invocation is at and whether, read by itself at the
\* invocation's current_time, it has reached the expiry period.
ItemExpired(p, i) ==
    LET item == serving_counter_items[p][i] IN
        /\ item.serving_counter \in DOMAIN position_table
        /\ current_time[p]
              - Max(position_table[item.serving_counter], item.issue_time)
              >= QUEUE_POSITION_EXPIRY_PERIOD

\* C1: from one state to the next neither MAX_QUEUE_POSITION_EXPIRED nor
\* SERVING_COUNTER decreases, whatever the tables hold.
C1_Monotonic ==
    [][/\ rc[MAX_QUEUE_POSITION_EXPIRED]' >= rc[MAX_QUEUE_POSITION_EXPIRED]
       /\ rc[SERVING_COUNTER]' >= rc[SERVING_COUNTER]]_vars

\* C2: when an invocation has completed its pass, the frontier is at most the
\* serving counter (it was so at the start, and every checkpoint key was at
\* most the serving counter when it was written).
C2_Bounding ==
    \A p \in Procs :
        Finished(p) => rc[MAX_QUEUE_POSITION_EXPIRED] <= rc[SERVING_COUNTER]

\* C3: between invocations the serving counter is at most the queue counter.
C3_ServingWithinQueue ==
    Quiescent => rc[SERVING_COUNTER] <= rc[QUEUE_COUNTER]

\* C3 as amended: the pass never compares with QUEUE_COUNTER and never writes
\* it; started alone with the serving counter at most the queue counter, it
\* leaves the serving counter at most the queue counter plus the distance the
\* frontier has moved since the invocation started.
C3_ServingWithinQueuePlusAdvance ==
    \A p \in Procs :
        /\ rc[QUEUE_COUNTER] = begin[p].rc[QUEUE_COUNTER]
        /\ begin[p].rc[SERVING_COUNTER] <= begin[p].rc[QUEUE_COUNTER] =>
              rc[SERVING_COUNTER] <=
                  rc[QUEUE_COUNTER]
                    + (rc[MAX_QUEUE_POSITION_EXPIRED]
                         - begin[p].rc[MAX_QUEUE_POSITION_EXPIRED])

\* C3 witness: a completed pass that started with the serving counter at most
\* the queue counter and left it above.
C3_Witness ==
    \E p \in Procs :
        /\ Finished(p)
        /\ begin[p].rc[SERVING_COUNTER] <= begin[p].rc[QUEUE_COUNTER]
        /\ rc[SERVING_COUNTER] > rc[QUEUE_COUNTER]

\* C4: the items of a pass are applied in ascending key order without a gap,
\* and a pass that stopped at an item still within the expiry period has
\* applied exactly the items before it: three writes for each of them, none
\* for the item it stopped at or for a later one.
C4_EarlyExit ==
    \A p \in Procs :
        LET its == serving_counter_items[p]
            n == Len(applied[p])
        IN /\ \A i, j \in 1..Len(its) :
                 i < j => its[i].serving_counter < its[j].serving_counter
           /\ n <= Len(its)
           /\ \A i \in 1..n : applied[p][i] = its[i].serving_counter
           /\ stop[p] = "ineligible" =>
                 /\ n = idx[p] - 1
                 /\ writes[p] = 3 * (idx[p] - 1)
                 /\ ~ItemExpired(p, idx[p])
                 /\ rc[MAX_QUEUE_POSITION_EXPIRED] =
                       (IF n = 0 THEN begin[p].rc[MAX_QUEUE_POSITION_EXPIRED]
                        ELSE its[n].serving_counter)
                 /\ n = 0 => rc = begin[p].rc /\ serving_table = begin[p].tbl

\* C4 witness: a pass stopped at an item within the expiry period while a
\* later item of the same query is past it.
C4_Witness ==
    \E p \in Procs :
        /\ stop[p] = "ineligible"
        /\ \E j \in (idx[p] + 1)..Len(serving_counter_items[p]) : ItemExpired(p, j)

\* C5: a negative increment_by is never added to the serving counter: after
\* the INCRBY step of an item whose credit is negative, the serving counter
\* is what it was before the item.
C5_NoNegativeCredit ==
    \A p \in Procs :
        (pc[p] = "put" /\ increment_by[p] < 0) => rc[SERVING_COUNTER] = pre[p].v

\* C6: once every invocation has ended and the last one of each process ran to
\* completion, every checkpoint the frontier was set to has had its credit
\* added exactly once and its new checkpoint written exactly once, also when
\* an earlier invocation failed between two of its writes.
C6_RetrySafe ==
    (Quiescent /\ \A p \in Procs : pc[p] = "done" => Finished(p)) =>
        \A v \in DOMAIN sets : Count(credits, v) = 1 /\ Count(puts, v) = 1

\* C7: no step removes or changes an item of the serving-counter table.
C7_AppendOnly ==
    [][\A k \in DOMAIN serving_table :
          k \in DOMAIN serving_table' /\ serving_table'[k] = serving_table[k]]_vars

\* C8: with invocations that may overlap, no checkpoint is credited twice,
\* and once all invocations have ended none that the frontier was set to is
\* left without its credit.
C8_ExactlyOnce ==
    /\ \A v \in DOMAIN credits : credits[v] <= 1
    /\ Quiescent => \A v \in DOMAIN sets : Count(credits, v) >= 1

\* C9: with one invocation at a time and no failure, every credited checkpoint
\* lies at or below the frontier and was credited once, and the items an
\* invocation has queried and not yet applied were never credited before.
C9_SingleWriter ==
    /\ \A v \in DOMAIN credits :
          credits[v] = 1 /\ (Quiescent => v <= rc[MAX_QUEUE_POSITION_EXPIRED])
    /\ \A p \in Procs :
          \A i \in 1..Len(serving_counter_items[p]) :
              i > Len(applied[p]) =>
                  Count(credits, serving_counter_items[p][i].serving_counter) = 0

\* C9 witness: a later invocation has queried items after an earlier one
\* applied a checkpoint.
C9_Witness ==
    /\ runs = 2
    /\ pc[Writer] = "check"
    /\ applied[Writer] = << >>
    /\ DOMAIN credits # {}

\* C10: after the three writes of an applied item (value c, served s,
\* previous p, serving counter v before): frontier = c, serving counter =
\* v + (c - p) - s, and the table differs from the one before the item by
\* exactly the item keyed by the value INCRBY returned, with
\* queue_positions_served 0.
C10_ApplyOne ==
    \A q \in Procs :
        (pc[q] \in {"check", "done"} /\ Len(applied[q]) > 0) =>
            /\ rc[MAX_QUEUE_POSITION_EXPIRED] = pre[q].c
            /\ rc[SERVING_COUNTER] = pre[q].v + (pre[q].c - pre[q].p) - pre[q].s
            /\ cur_serving[q] = rc[SERVING_COUNTER]
            /\ DOMAIN serving_table = DOMAIN pre[q].tbl \cup {cur_serving[q]}
            /\ serving_table[cur_serving[q]] =
                  [issue_time |-> pre[q].t, queue_positions_served |-> 0]
            /\ \A k \in DOMAIN pre[q].tbl \ {cur_serving[q]} :
                  serving_table[k] = pre[q].tbl[k]

\* C10 witness: the simple skip, scaled to the bounds: frontier 0, a checkpoint
\* with nothing served, serving counter raised by the checkpoint's value.
C10_Witness ==
    \E q \in Procs :
        /\ pc[q] = "done"
        /\ applied[q] # << >>
        /\ pre[q].p = 0
        /\ pre[q].s = 0
        /\ pre[q].c > 0
        /\ rc[SERVING_COUNTER] = pre[q].v + pre[q].c
        /\ cur_serving[q] \notin DOMAIN pre[q].tbl

\* C11: the amount an applied item adds to the serving counter is
\* (item position - previous position) - positions served, on the operands
\* around the example of the design; with previous 100, checkpoint 150 and
\* 5 served it is 45.
C11_CreditCorrect ==
    \A q \in Procs :
        pc[q] = "put" =>
            /\ increment_by[q] = (pre[q].c - pre[q].p) - pre[q].s
            /\ rc[SERVING_COUNTER] - pre[q].v = increment_by[q]
            /\ (pre[q].c = 150 /\ pre[q].p = 100 /\ pre[q].s = 5) =>
                  increment_by[q] = 45

\* C11 witness: the example itself has been applied.
C11_Witness ==
    \E q \in Procs :
        /\ pc[q] = "put"
        /\ pre[q].c = 150
        /\ pre[q].p = 100
        /\ pre[q].s = 5
        /\ rc[SERVING_COUNTER] = pre[q].v + 45

\* The first queried item has a position record and is still within the
\* expiry period at the invocation's current_time.
FirstWithinPeriod(p) ==
    LET item == serving_counter_items[p][1] IN
        /\ Len(serving_counter_items[p]) > 0
        /\ item.serving_counter \in DOMAIN position_table
        /\ current_time[p]
              - Max(position_table[item.serving_counter], item.issue_time)
              < QUEUE_POSITION_EXPIRY_PERIOD

\* C12: a completed pass whose query returned nothing, or whose first item is
\* still within the expiry period, has written nothing: the three counters,
\* the checkpoints and the position records are as they were at its start.
C12_NoWorkNoMutation ==
    \A p \in Procs :
        (Finished(p) /\ (Len(serving_counter_items[p]) = 0 \/ FirstWithinPeriod(p))) =>
            /\ writes[p] = 0
            /\ rc = begin[p].rc
            /\ serving_table = begin[p].tbl
            /\ position_table = begin[p].pos

\* C12 witness: a completed pass whose first item is within the period while
\* its second item is past it.
C12_Witness ==
    \E p \in Procs :
        /\ Finished(p)
        /\ FirstWithinPeriod(p)
        /\ Len(serving_counter_items[p]) >= 2
        /\ ItemExpired(p, 2)

\* C13: no item at or after a queried item without a position record is
\* applied; a pass that stopped at such an item has done the three writes of
\* each earlier item and no other, the frontier is the last applied key (or
\* the value at the start when nothing was applied), and what the earlier
\* items wrote is still in place.
C13_MissingPositionStops ==
    \A p \in Procs :
        LET its == serving_counter_items[p]
            n == Len(applied[p])
        IN /\ \A i \in 1..Len(its) :
                 its[i].serving_counter \notin DOMAIN position_table => n < i
           /\ stop[p] = "missing" =>
                 /\ its[idx[p]].serving_counter \notin DOMAIN position_table
                 /\ n = idx[p] - 1
                 /\ writes[p] = 3 * n
                 /\ position_table = begin[p].pos
                 /\ n = 0 => rc = begin[p].rc /\ serving_table = begin[p].tbl
                 /\ n > 0 =>
                       /\ rc[MAX_QUEUE_POSITION_EXPIRED] = its[n].serving_counter
                       /\ rc[SERVING_COUNTER] = cur_serving[p]
                       /\ cur_serving[p] \in DOMAIN serving_table
                       /\ serving_table[cur_serving[p]].queue_positions_served = 0

\* C13 witness: a pass stopped at an item without a position record while a
\* later queried item has one and is past the expiry period.
C13_Witness ==
    \E p \in Procs :
        /\ stop[p] = "missing"
        /\ \E j \in (idx[p] + 1)..Len(serving_counter_items[p]) : ItemExpired(p, j)

\* C14: no write of an invocation moves MAX_QUEUE_POSITION_EXPIRED below the
\* value it holds, also when another invocation has raised it since this
\* one read it.
C14_FrontierNeverLowered ==
    [][rc[MAX_QUEUE_POSITION_EXPIRED]' >= rc[MAX_QUEUE_POSITION_EXPIRED]]_vars

\* Time elapsed at the invocation's current_time since the later of the two
\* issue times of queried item i, whose position record exists.
Elapsed(p, i) ==
    LET item == serving_counter_items[p][i] IN
        current_time[p] - Max(position_table[item.serving_counter], item.issue_time)

RECURSIVE ServedUpTo(_, _)
ServedUpTo(its, n) ==
    IF n = 0 THEN 0
    ELSE ServedUpTo(its, n - 1) + its[n].queue_positions_served

\* C16: between two items and at the end of a pass that has applied the
\* first n queried items, from the frontier m read at its start: the serving
\* counter has grown by (key of item n - m) - (sum of their positions served),
\* the frontier is the key of item n, previous is that key too (and m while
\* nothing is applied), and the pass has done 3n writes, one PUT for each
\* applied item.
C16_Telescoping ==
    \A q \in Procs :
        LET its == serving_counter_items[q]
            n == Len(applied[q])
        IN pc[q] \in {"check", "done"} =>
              /\ n = 0 /\ Len(its) > 0 =>
                    previous_serving_counter_position[q] =
                        begin[q].rc[MAX_QUEUE_POSITION_EXPIRED]
              /\ n > 0 =>
                    /\ rc[SERVING_COUNTER] - begin[q].rc[SERVING_COUNTER] =
                          (its[n].serving_counter
                              - begin[q].rc[MAX_QUEUE_POSITION_EXPIRED])
                            - ServedUpTo(its, n)
                    /\ rc[MAX_QUEUE_POSITION_EXPIRED] = its[n].serving_counter
                    /\ previous_serving_counter_position[q] = its[n].serving_counter
                    /\ writes[q] = 3 * n
                    /\ \A i \in 1..n : Count(puts, its[i].serving_counter) = 1

\* C16 witness: a completed pass that applied two items, the first of which
\* raised the serving counter.
C16_Witness ==
    \E q \in Procs :
        /\ pc[q] = "done"
        /\ Len(applied[q]) = 2
        /\ serving_counter_items[q][1].serving_counter
              - begin[q].rc[MAX_QUEUE_POSITION_EXPIRED]
              > serving_counter_items[q][1].queue_positions_served

\* What a running pass iterates over: the checkpoints above the frontier as
\* they were in the table when the invocation started, each at most once.
PassBounded ==
    \A p \in Procs :
        LET its == serving_counter_items[p] IN
           /\ idx[p] <= Len(its)
           /\ Len(applied[p]) <= Len(its)
           /\ writes[p] <= 3 * Len(its)
           /\ \A i \in 1..Len(its) :
                 /\ its[i].serving_counter \in DOMAIN begin[p].tbl
                 /\ its[i] = Item(begin[p].tbl, its[i].serving_counter)
                 /\ its[i].serving_counter >
                       begin[p].rc[MAX_QUEUE_POSITION_EXPIRED]

\* C17: a pass iterates only over the items its one query returned (a
\* checkpoint it appends is not among them), does at most three writes for
\* each, and every started invocation ends.
C17_PassTerminates ==
    /\ []PassBounded
    /\ \A p \in Procs : Active(p) ~> ~Active(p)

\* C17 witness: a completed pass has appended a checkpoint above the frontier
\* it read, which is not among its items.
C17_Witness ==
    \E p \in Procs :
        /\ Finished(p)
        /\ Len(applied[p]) > 0
        /\ cur_serving[p] > max_queue_position_expired[p]
        /\ cur_serving[p] \in DOMAIN serving_table
        /\ \A i \in 1..Len(serving_counter_items[p]) :
              serving_counter_items[p][i].serving_counter # cur_serving[p]

\* C18: within an applied item the frontier is written first, the serving
\* counter is incremented second and the checkpoint is put last; every key
\* lambda_handler has put is a value the serving counter has held; and the
\* frontier stays below every queried item the pass has not applied, so it
\* never names the item a pass stopped at.
C18_WriteOrder ==
    /\ written \subseteq reached
    /\ \A p \in Procs :
          LET its == serving_counter_items[p]
              n == Len(applied[p])
          IN /\ pc[p] = "set" => writes[p] = 3 * (idx[p] - 1)
             /\ pc[p] = "incr" =>
                   /\ writes[p] = 3 * (idx[p] - 1) + 1
                   /\ rc[MAX_QUEUE_POSITION_EXPIRED] = its[idx[p]].serving_counter
                   /\ rc[SERVING_COUNTER] = pre[p].v
                   /\ serving_table = pre[p].tbl
             /\ pc[p] = "put" =>
                   /\ writes[p] = 3 * (idx[p] - 1) + 2
                   /\ rc[MAX_QUEUE_POSITION_EXPIRED] = its[idx[p]].serving_counter
                   /\ rc[SERVING_COUNTER] = cur_serving[p]
                   /\ serving_table = pre[p].tbl
             /\ \A i \in (n + 1)..Len(its) :
                   rc[MAX_QUEUE_POSITION_EXPIRED] < its[i].serving_counter
             /\ stop[p] \in {"ineligible", "missing"} =>
                   /\ n = idx[p] - 1
                   /\ rc[MAX_QUEUE_POSITION_EXPIRED] # its[idx[p]].serving_counter

\* C18 witness: the frontier is set and the serving counter raised for an
\* item whose new checkpoint is not in the table yet.
C18_Witness ==
    \E p \in Procs :
        /\ pc[p] = "put"
        /\ rc[MAX_QUEUE_POSITION_EXPIRED] = pre[p].c
        /\ rc[SERVING_COUNTER] > pre[p].v
        /\ cur_serving[p] \notin DOMAIN serving_table
====
